---- MODULE Spec2Model ----
(***************************************************************************)
(* The Conductor worker agent: the polling loop of ConductorAgent.run      *)
(* (examples/agent-starter.py) driving the task pipeline of                *)
(* AutonomousCodingAgent.execute_task (examples/autonomous-agent.py).      *)
(*                                                                         *)
(* The coordinator, the generation backend, the file system and git are    *)
(* the environment: every answer they can give is an input chosen with \E  *)
(* in the action that makes the call.  A KeyboardInterrupt may arrive at   *)
(* any point of the loop.                                                  *)
(***************************************************************************)
EXTENDS Integers, Sequences, FiniteSets, TLC

\* ------------------------------------------------------------------ bounds
MaxPolls == 2          \* loop iterations explored
MaxSteps == 2          \* longest plan the backend returns
MaxCycles == 7         \* loop iterations explored when the task body is opaque
MaxLines == 3          \* longest generated text explored line by line

\* ------------------------------------------------------- program constants
HeartbeatEvery == 6    \* heartbeat_counter % 6
CommandTimeout == 60   \* subprocess.run(..., timeout=60)

Missing == "<missing>"             \* a key a dict does not have
NoneVal == "None"                  \* Python's None where a string is expected

\* --------------------------------------------------------------- text
\* A text is the sequence of its lines (str.split("\n")).  The module
\* language has no backquote in strings: ~~~ stands for the three
\* backquotes of a markdown fence.
FenceLines == {"~~~", "~~~py"}                 \* line.strip().startswith("~~~")
TickLines == FenceLines \cup {"s = '~~~'"}     \* "~~~" in line
SkipLines == {"# c", "Here is"}                \* startswith "#", "Here", "This"
BlankLines == {""}                             \* whitespace only

HasTicks(text) == \E i \in 1..Len(text) : text[i] \in TickLines

RECURSIVE LStrip(_)
LStrip(text) ==
  IF text # <<>> /\ Head(text) \in BlankLines THEN LStrip(Tail(text)) ELSE text

RECURSIVE RStrip(_)
RStrip(text) ==
  IF text # <<>> /\ text[Len(text)] \in BlankLines
  THEN RStrip(SubSeq(text, 1, Len(text) - 1)) ELSE text

\* str.strip() of the joined lines: blank lines at both ends disappear
Strip(text) == RStrip(LStrip(text))

\* the line filter of _create_file: fence lines toggle in_code and are
\* dropped; outside a fence, lines starting with "#", "Here", "This" are dropped
RECURSIVE CreateFilter(_, _)
CreateFilter(lines, in_code) ==
  IF lines = <<>> THEN <<>>
  ELSE LET line == Head(lines) IN
       IF line \in FenceLines THEN CreateFilter(Tail(lines), ~in_code)
       ELSE IF in_code \/ line \notin SkipLines
            THEN <<line>> \o CreateFilter(Tail(lines), in_code)
            ELSE CreateFilter(Tail(lines), in_code)

StripFencesCreate(text) ==
  IF HasTicks(text) THEN Strip(CreateFilter(text, FALSE)) ELSE text

\* the line filter of _modify_file: only lines inside a fence are kept
RECURSIVE ModifyFilter(_, _)
ModifyFilter(lines, in_code) ==
  IF lines = <<>> THEN <<>>
  ELSE LET line == Head(lines) IN
       IF line \in FenceLines THEN ModifyFilter(Tail(lines), ~in_code)
       ELSE IF in_code
            THEN <<line>> \o ModifyFilter(Tail(lines), in_code)
            ELSE ModifyFilter(Tail(lines), in_code)

StripFencesModify(text) ==
  IF HasTicks(text) THEN Strip(ModifyFilter(text, FALSE)) ELSE text

\* what the generation backend may answer to a file prompt
AIResponses ==
  { <<"x = 1">>,
    <<"Here is", "~~~py", "x = 2", "~~~">> }

\* --------------------------------------------------------------- workspace
Files == {"a.py"}
Commands == {"make"}

AbsentFile == [exists |-> FALSE, content |-> <<>>]
FileOf(text) == [exists |-> TRUE, content |-> text]

\* Path.exists() of workspace / target
Exists(w, target) == target \in Files /\ w[target].exists

\* --------------------------------------------------------------- coordinator
NoTask == [some |-> FALSE, id |-> Missing, title |-> Missing]
Tasks ==
  { [some |-> TRUE, id |-> "t1", title |-> "T"],
    [some |-> TRUE, id |-> Missing, title |-> "T"],
    [some |-> TRUE, id |-> "t1", title |-> Missing] }

\* what the HTTP call of poll_for_task may meet
PollResponses ==
  { [call |-> "poll", reachable |-> FALSE, status |-> 0, success |-> FALSE, data |-> NoTask] }
  \cup
  { [call |-> "poll", reachable |-> TRUE, status |-> s, success |-> b, data |-> d] :
      s \in {200, 500}, b \in BOOLEAN, d \in {NoTask} \cup Tasks }

\* no HTTP call was made by the last step
NoResponse ==
  [call |-> "none", reachable |-> FALSE, status |-> -1, success |-> FALSE, data |-> NoTask]

\* what the HTTP call of send_heartbeat may meet
HeartbeatResponses ==
  { [call |-> "heartbeat", reachable |-> FALSE, status |-> 0, success |-> FALSE,
     data |-> NoTask] }
  \cup
  { [call |-> "heartbeat", reachable |-> TRUE, status |-> s, success |-> s = 200,
     data |-> NoTask] :
      s \in {200, 500} }

\* send_heartbeat's return value: response.status_code == 200, False on an error
heartbeat_ok(r) == r.reachable /\ r.status = 200

\* a poll_for_task that takes the body of any answer, whatever its status
poll_for_task_unchecked(r) ==
  IF r.reachable /\ r.data.some THEN r.data ELSE NoTask

\* poll_for_task: the task, or None on any error, non-200 or empty answer
poll_for_task(r) ==
  IF ~r.reachable THEN NoTask
  ELSE IF r.status = 200 /\ r.success /\ r.data.some THEN r.data
  ELSE NoTask

\* --------------------------------------------------------------- plans
Step(action, target) == [isdict |-> TRUE, action |-> action, target |-> target]
NonDictStep == [isdict |-> FALSE, action |-> Missing, target |-> Missing]

Steps ==
  { Step("create_file", f) : f \in Files }
  \cup { Step("modify_file", f) : f \in Files }
  \cup { Step("run_command", c) : c \in Commands }
  \cup { Step("delete_file", f) : f \in Files }
  \cup { Step(Missing, f) : f \in Files }
  \cup { NonDictStep }

RECURSIVE SeqsUpTo(_, _)
SeqsUpTo(S, n) ==
  IF n = 0 THEN { <<>> }
  ELSE LET shorter == SeqsUpTo(S, n - 1) IN
       shorter \cup { Append(s, x) : s \in shorter, x \in S }

NoPlan == [has_steps |-> FALSE, steps |-> <<>>]
Plans ==
  { NoPlan } \cup { [has_steps |-> TRUE, steps |-> s] : s \in SeqsUpTo(Steps, MaxSteps) }

\* what the plan call of the generation backend may come to
PlanResponses ==
  { [kind |-> "api_error", plan |-> NoPlan], [kind |-> "bad_json", plan |-> NoPlan] }
  \cup { [kind |-> "json", plan |-> p] : p \in Plans }

\* --------------------------------------------------------------- records
NoContext == [files |-> [t \in {} |-> <<>>], technologies |-> <<>>]
NoValidation == [done |-> FALSE, success |-> FALSE, issues |-> <<>>]
NoOutput ==
  [success |-> FALSE, steps_completed |-> 0, files_modified |-> <<>>,
   validation |-> NoValidation, commit |-> NoneVal, plan |-> NoPlan,
   execution_summary |-> <<>>]

\* a step result; Missing and -1 stand for the keys the dict does not have
Result(action, status, file, command, exit_code, error) ==
  [action |-> action, status |-> status, file |-> file, command |-> command,
   exit_code |-> exit_code, error |-> error]

\* --------------------------------------------------------------- state
VARIABLES
  pc,                 \* where run() is
  running,            \* self.running
  heartbeat_counter,  \* run()'s heartbeat_counter
  task,               \* run()'s task, as the last poll returned it
  hb,                 \* statuses of the heartbeats sent, oldest first
  reports,            \* complete_task/fail_task calls made since the last poll
  exc,                \* message of the Exception being handled, "" if none
  interrupted,        \* a KeyboardInterrupt is propagating through finally
  ai_calls,           \* generation backend calls made since the last poll
  plan,               \* execute_task's plan
  context,            \* execute_task's context
  results,            \* execute_task's results
  validation,         \* execute_task's validation
  commit_hash,        \* execute_task's commit_hash
  git_ops,            \* git operations run by _commit_changes since the last poll
  response,           \* what the HTTP call of the last step received, if it made one
  generated,          \* the text of the backend's answer a file step is working on
  ws,                 \* the workspace: file -> [exists, content]
  head                \* the files as of the last commit

vars ==
  << pc, running, heartbeat_counter, task, hb, reports, exc, interrupted, response,
     generated, ai_calls, plan, context, results, validation, commit_hash, git_ops, ws, head >>

loopVars == << running, heartbeat_counter, task, hb, reports >>
taskVars == << ai_calls, plan, context, results, validation, commit_hash, git_ops >>
diskVars == << ws, head >>

InitialFiles == { AbsentFile, FileOf(<<"x = 1">>) }

Init ==
  /\ pc = "loop_top"
  /\ running = TRUE
  /\ heartbeat_counter = 0
  /\ task = NoTask
  /\ hb = <<>>
  /\ reports = <<>>
  /\ exc = ""
  /\ interrupted = FALSE
  /\ response = NoResponse
  /\ generated = <<>>
  /\ ai_calls = 0
  /\ plan = NoPlan
  /\ context = NoContext
  /\ results = <<>>
  /\ validation = NoValidation
  /\ commit_hash = NoneVal
  /\ git_ops = <<>>
  /\ ws \in [Files -> InitialFiles]
  /\ head = ws

\* The locals of execute_task are gone once it is left: the model forgets them
\* when a KeyboardInterrupt leaves it, and otherwise when run() has sent its
\* report and reaches the end of the finally clause.  The call counts stay.
DropLocals ==
  /\ plan' = NoPlan
  /\ context' = NoContext
  /\ results' = <<>>
  /\ validation' = NoValidation
  /\ commit_hash' = NoneVal
  /\ UNCHANGED << ai_calls, git_ops >>

\* send_heartbeat(status): the request goes out and is answered or fails; the
\* method returns whether it was answered with 200, and run() ignores that
send_heartbeat(status) ==
  \E r \in HeartbeatResponses :
    /\ hb' = Append(hb, status)
    /\ response' = r

\* a run() that gives up the iteration when a heartbeat was not acknowledged
AfterHeartbeatChecked(r, next) == IF heartbeat_ok(r) THEN next ELSE "outer_except"

\* where run() goes on after self.send_heartbeat(...): the value returned is
\* not looked at
AfterHeartbeat(r, next) == next

\* an Exception raised inside the inner try of run(): execute_task's handler
\* logs it and re-raises, run()'s inner handler takes it
Raise(msg) == exc' = msg /\ pc' = "except_inner"

\* =============================================================== run()
\* a finally clause that repeats the busy status instead of resetting it
ResetStatusStuck == "busy"

\* the status run() sends before execute_task and in its finally clause
BusyStatus == "busy"
ResetStatus == "active"

\* a loop that sends the periodic heartbeat in every iteration
HeartbeatDueAlways(counter) == TRUE

\* if heartbeat_counter % 6 == 0
HeartbeatDue(counter) == counter % HeartbeatEvery = 0

\* while self.running: ... if heartbeat_counter % 6 == 0: send_heartbeat("active")
\* for the iterations explored
LoopTop(iterations) ==
  /\ pc = "loop_top"
  /\ UNCHANGED generated
  /\ running
  /\ heartbeat_counter < iterations
  /\ IF HeartbeatDue(heartbeat_counter)
     THEN send_heartbeat("active") /\ pc' = AfterHeartbeat(response', "poll")
     ELSE hb' = hb /\ response' = NoResponse /\ pc' = "poll"
  /\ heartbeat_counter' = heartbeat_counter + 1
  /\ UNCHANGED << running, task, reports, exc, interrupted >>
  /\ UNCHANGED taskVars
  /\ UNCHANGED diskVars

PeriodicHeartbeat == LoopTop(MaxPolls)

\* task = self.poll_for_task(); the locals of the previous execute_task are gone
Poll ==
  /\ pc = "poll"
  /\ UNCHANGED generated
  /\ \E r \in PollResponses :
       /\ response' = r
       /\ task' = poll_for_task(r)
       /\ pc' = IF task'.some THEN "claim" ELSE "sleep"
  /\ reports' = <<>>
  /\ ai_calls' = 0
  /\ plan' = NoPlan
  /\ context' = NoContext
  /\ results' = <<>>
  /\ validation' = NoValidation
  /\ commit_hash' = NoneVal
  /\ git_ops' = <<>>
  /\ UNCHANGED << running, heartbeat_counter, hb, exc, interrupted >>
  /\ UNCHANGED diskVars

\* task_id = task["id"]; task['title']: a KeyError is raised outside the inner
\* try and is taken by run()'s outer handler
Claim ==
  /\ pc = "claim"
  /\ UNCHANGED generated
  /\ response' = NoResponse
  /\ IF task.id = Missing THEN exc' = "KeyError: 'id'" /\ pc' = "outer_except"
     ELSE IF task.title = Missing THEN exc' = "KeyError: 'title'" /\ pc' = "outer_except"
     ELSE exc' = exc /\ pc' = "busy"
  /\ UNCHANGED << interrupted >>
  /\ UNCHANGED loopVars
  /\ UNCHANGED taskVars
  /\ UNCHANGED diskVars

\* self.send_heartbeat("busy"), then execute_task is entered
SendBusy ==
  /\ pc = "busy"
  /\ UNCHANGED generated
  /\ send_heartbeat(BusyStatus)
  /\ pc' = AfterHeartbeat(response', "plan")
  /\ UNCHANGED << running, heartbeat_counter, task, reports, exc, interrupted >>
  /\ UNCHANGED taskVars
  /\ UNCHANGED diskVars

\* ======================================================= execute_task()
\* plan = self._create_execution_plan(...); len(plan['steps'])
CreatePlan ==
  /\ pc = "plan"
  /\ UNCHANGED generated
  /\ response' = NoResponse
  /\ ai_calls' = ai_calls + 1
  /\ \E g \in PlanResponses :
       IF g.kind = "api_error" THEN Raise("APIError") /\ plan' = plan
       ELSE IF g.kind = "bad_json" THEN Raise("JSONDecodeError") /\ plan' = plan
       ELSE IF ~g.plan.has_steps THEN Raise("KeyError: 'steps'") /\ plan' = g.plan
       ELSE plan' = g.plan /\ pc' = "context" /\ exc' = exc
  /\ UNCHANGED << interrupted, context, results, validation, commit_hash, git_ops >>
  /\ UNCHANGED loopVars
  /\ UNCHANGED diskVars

\* the state of package.json as _gather_codebase_context finds it
Manifests == {"missing", "unreadable", "unparsable", "valid"}

\* context["technologies"]: the dependency names of a manifest that was read
Technologies(manifest) == IF manifest = "valid" THEN <<"react">> ELSE <<>>

\* the targets of the plan, in plan order
Targets(p) == { p.steps[i].target : i \in 1..Len(p.steps) }

\* _gather_codebase_context(plan), the steps being dicts: the targets that
\* exist and can be read, with their content
gather_codebase_context(p, w, manifest, unreadable) ==
  [files |-> [t \in { x \in Targets(p) : Exists(w, x) /\ x \notin unreadable } |->
                w[t].content],
   technologies |-> Technologies(manifest)]

\* an execute_task that validates before it runs the steps
AfterContextValidates(p) == "validate"

\* for i, step in enumerate(plan['steps'], 1): the loop body runs if there is
\* a step, and validation follows the loop
AfterContext(p) == IF Len(p.steps) = 0 THEN "validate" ELSE "step"

\* context = self._gather_codebase_context(plan); step.get raises on a step
\* that is no dict.  A KeyboardInterrupt arriving inside one of its bare
\* except blocks is swallowed there and leaves that read out.
GatherContext ==
  /\ pc = "context"
  /\ UNCHANGED generated
  /\ response' = NoResponse
  /\ IF \E i \in 1..Len(plan.steps) : ~plan.steps[i].isdict
     THEN Raise("AttributeError: get") /\ context' = context
     ELSE /\ \E m \in Manifests, unreadable \in SUBSET Files :
               context' = gather_codebase_context(plan, ws, m, unreadable)
          /\ pc' = AfterContext(plan)
          /\ exc' = exc
  /\ UNCHANGED << interrupted, ai_calls, plan, results, validation, commit_hash, git_ops >>
  /\ UNCHANGED loopVars
  /\ UNCHANGED diskVars

\* --------------------------------------------------------------- steps
\* What a step executor may come to: a result, or an Exception raised out of
\* it; the workspace it leaves; the backend calls it made.
Returned(result, w, calls) ==
  [raised |-> FALSE, msg |-> "", result |-> result, ws |-> w, calls |-> calls]
NoResult == Result(Missing, Missing, Missing, Missing, -1, Missing)
Raised(msg, w, calls) ==
  [raised |-> TRUE, msg |-> msg, result |-> NoResult, ws |-> w, calls |-> calls]

Written(w, file_path, text) == [w EXCEPT ![file_path] = FileOf(text)]

\* _create_file: backend call, fence stripping, mkdir, open and write; the
\* directory cannot be made, or the file cannot be opened for writing
create_file(w, file_path) ==
  { Raised("APIError", w, 1) }
  \cup { Raised("OSError: mkdir", w, 1) }
  \cup { Raised("OSError: open", w, 1) }
  \cup { Returned(Result("create_file", "success", file_path, Missing, -1, Missing),
                  Written(w, file_path, StripFencesCreate(r)), 1) : r \in AIResponses }

\* a _modify_file that asks the backend and writes the target even when it is missing
modify_missing_file_written(w, file_path) ==
  { Returned(Result("modify_file", "success", file_path, Missing, -1, Missing),
             Written(w, file_path, StripFencesModify(r)), 1) : r \in AIResponses }

\* _modify_file when full_path.exists() is false
modify_missing_file(w, file_path) ==
  { Returned(Result("modify_file", "file_not_found", Missing, Missing, -1, Missing), w, 0) }

\* _modify_file when the target exists: read, backend call, fence stripping, write
modify_existing_file(w, file_path) ==
  { Raised("OSError: read", w, 0) }
  \cup { Raised("APIError", w, 1) }
  \cup { Raised("OSError: open", w, 1) }
  \cup { Returned(Result("modify_file", "success", file_path, Missing, -1, Missing),
                  Written(w, file_path, StripFencesModify(r)), 1) : r \in AIResponses }

modify_file(w, file_path) ==
  IF Exists(w, file_path) THEN modify_existing_file(w, file_path)
  ELSE modify_missing_file(w, file_path)

\* what subprocess.run(command, shell=True, timeout=60) may meet: the shell
\* cannot be launched, or the command runs for `duration` seconds, ends with
\* `returncode` and may have removed the files of the workspace
CommandRuns ==
  { [launched |-> FALSE, duration |-> 0, returncode |-> 0, removes |-> FALSE] }
  \cup { [launched |-> TRUE, duration |-> d, returncode |-> rc, removes |-> wr] :
           d \in {1, CommandTimeout + 1}, rc \in {0, 1}, wr \in BOOLEAN }

CommandEffect(w, run) ==
  IF run.launched /\ run.removes
  THEN [f \in Files |-> AbsentFile]
  ELSE w

\* a _run_command whose handler lets subprocess.TimeoutExpired through
run_command_once_uncaught(w, command, run) ==
  IF ~run.launched
  THEN Returned(Result("run_command", "error", Missing, command, -1, "OSError: launch"),
                w, 0)
  ELSE IF run.duration > CommandTimeout
  THEN Raised("TimeoutExpired", CommandEffect(w, run), 0)
  ELSE Returned(Result("run_command",
                       IF run.returncode = 0 THEN "success" ELSE "failed",
                       Missing, command, run.returncode, Missing),
                CommandEffect(w, run), 0)

\* _run_command on one run: every Exception is caught into status "error"
run_command_once(w, command, run) ==
  IF ~run.launched
  THEN Returned(Result("run_command", "error", Missing, command, -1, "OSError: launch"),
                w, 0)
  ELSE IF run.duration > CommandTimeout
  THEN Returned(Result("run_command", "error", Missing, command, -1, "TimeoutExpired"),
                CommandEffect(w, run), 0)
  ELSE Returned(Result("run_command",
                       IF run.returncode = 0 THEN "success" ELSE "failed",
                       Missing, command, run.returncode, Missing),
                CommandEffect(w, run), 0)

run_command(w, command) == { run_command_once(w, command, run) : run \in CommandRuns }

\* _execute_step: step["action"] raises on a step without the key
execute_step(w, step) ==
  IF ~step.isdict THEN { Raised("TypeError: step", w, 0) }
  ELSE IF step.action = Missing THEN { Raised("KeyError: 'action'", w, 0) }
  ELSE IF step.action = "create_file" THEN create_file(w, step.target)
  ELSE IF step.action = "modify_file" THEN modify_file(w, step.target)
  ELSE IF step.action = "run_command" THEN run_command(w, step.target)
  ELSE { Returned(Result(step.action, "skipped", Missing, Missing, -1, Missing), w, 0) }

\* a loop over the steps that stops at the first result that is no success
AfterStepShortCircuit(out) ==
  IF out.raised
  THEN Raise(out.msg) /\ results' = results
  ELSE /\ results' = Append(results, out.result)
       /\ pc' = IF Len(results') = Len(plan.steps) \/ out.result.status # "success"
                THEN "validate" ELSE "step"
       /\ exc' = exc

\* for i, step in enumerate(plan['steps'], 1): results.append(_execute_step(...))
\* an Exception raised by a step leaves the loop
AfterStep(out) ==
  IF out.raised
  THEN Raise(out.msg) /\ results' = results
  ELSE /\ results' = Append(results, out.result)
       /\ pc' = IF Len(results') = Len(plan.steps) THEN "validate" ELSE "step"
       /\ exc' = exc

\* an execute_task that reads the targets again after every step
ContextRefreshed(c, p, w) ==
  [files |-> [t \in { x \in Targets(p) : Exists(w, x) } |-> w[t].content],
   technologies |-> c.technologies]

\* the context the next step is given: the one dict built before the loop,
\* which no step executor writes to
ContextForNextStep(c, p, w) == c

ExecuteStep ==
  /\ pc = "step"
  /\ UNCHANGED generated
  /\ response' = NoResponse
  /\ \E out \in execute_step(ws, plan.steps[Len(results) + 1]) :
       /\ AfterStep(out)
       /\ ws' = out.ws
       /\ ai_calls' = ai_calls + out.calls
       /\ context' = ContextForNextStep(context, plan, out.ws)
  /\ UNCHANGED << interrupted, plan, validation, commit_hash, git_ops, head >>
  /\ UNCHANGED loopVars

\* --------------------------------------------------------------- validation
\* git status --porcelain prints nothing when the workspace is as committed
NoChanges(w, h) == w = h

\* _validate_changes: git is "ok" or "fails" (the status call raises);
\* typecheck is "absent" (no tsconfig.json), "pass", "fail" (non-zero
\* exit) or "raises" (npm missing, timeout), the last swallowed
validate_changes(w, h, git, typecheck) ==
  LET gitIssues == IF git = "fails" THEN <<"Git check failed">>
                   ELSE IF NoChanges(w, h) THEN <<"No changes detected">>
                   ELSE <<>>
      typeIssues == IF typecheck = "fail" THEN <<"Type errors">> ELSE <<>>
      issues == gitIssues \o typeIssues
  IN [done |-> TRUE, success |-> Len(issues) = 0, issues |-> issues]

\* a commit that does not look at the validation outcome
CommitAlways(v) == TRUE

\* if validation['success']: commit, else: log the issues
CommitWanted(v) == v.success

\* validation = self._validate_changes(task_id).  A KeyboardInterrupt arriving
\* inside one of its bare except blocks is swallowed there, as a failing check is.
Validate ==
  /\ pc = "validate"
  /\ UNCHANGED generated
  /\ response' = NoResponse
  /\ \E git \in {"ok", "fails"}, typecheck \in {"absent", "pass", "fail", "raises"} :
       validation' = validate_changes(ws, head, git, typecheck)
  /\ pc' = IF CommitWanted(validation') THEN "commit" ELSE "return"
  /\ UNCHANGED << exc, interrupted, ai_calls, plan, context, results, commit_hash, git_ops >>
  /\ UNCHANGED loopVars
  /\ UNCHANGED diskVars

\* --------------------------------------------------------------- commit
\* how far the three git calls of _commit_changes get
CommitRuns == {"add_fails", "commit_fails", "rev_parse_fails", "ok"}

GitOpsOf(run) ==
  IF run = "add_fails" THEN <<"add">>
  ELSE IF run = "commit_fails" THEN <<"add", "commit">>
  ELSE <<"add", "commit", "rev-parse">>

\* _commit_changes: the short revision, or the failure as a string
commit_changes(run) ==
  IF run = "ok" THEN "abc12345" ELSE "commit_failed: " \o run

Commit ==
  /\ pc = "commit"
  /\ UNCHANGED generated
  /\ response' = NoResponse
  /\ \E run \in CommitRuns :
       /\ commit_hash' = commit_changes(run)
       /\ git_ops' = git_ops \o GitOpsOf(run)
       /\ head' = IF run \in {"rev_parse_fails", "ok"} THEN ws ELSE head
  /\ pc' = "return"
  /\ UNCHANGED << exc, interrupted, ai_calls, plan, context, results, validation, ws >>
  /\ UNCHANGED loopVars

\* --------------------------------------------------------------- outcome
\* [r['file'] for r in results if 'file' in r]
FilesOf(rs) ==
  LET with == SelectSeq(rs, LAMBDA r : r.file # Missing)
  IN [i \in 1..Len(with) |-> with[i].file]

\* _generate_summary reads r['file'] of every create_file and modify_file
\* result: a KeyError when such a result has no 'file' key
SummaryRaises(rs) ==
  \E i \in 1..Len(rs) :
    rs[i].action \in {"create_file", "modify_file"} /\ rs[i].file = Missing

\* the files of the results of one action, in order
FilesOfAction(rs, action) ==
  LET of == SelectSeq(rs, LAMBDA r : r.action = action)
  IN [i \in 1..Len(of) |-> of[i].file]

SummaryPart(what, n, files) == [what |-> what, n |-> n, files |-> files]

\* _generate_summary: the parts joined with " | ", or "No changes made"
generate_summary(rs) ==
  LET created == FilesOfAction(rs, "create_file")
      modified == FilesOfAction(rs, "modify_file")
      commands == Len(SelectSeq(rs, LAMBDA r : r.action = "run_command"))
      parts ==
        (IF created # <<>> THEN <<SummaryPart("Created", Len(created), created)>> ELSE <<>>)
        \o (IF modified # <<>> THEN <<SummaryPart("Modified", Len(modified), modified)>> ELSE <<>>)
        \o (IF commands > 0 THEN <<SummaryPart("Ran", commands, <<>>)>> ELSE <<>>)
  IN IF parts # <<>> THEN parts ELSE <<SummaryPart("No changes made", 0, <<>>)>>

\* an outcome that never carries the revision
CommitFieldDropped(v, hash) == NoneVal

\* "commit": commit_hash if validation['success'] else None
CommitField(v, hash) == IF v.success THEN hash ELSE NoneVal

\* the dict execute_task returns
OutputData(p, rs, v, hash) ==
  [success |-> TRUE,
   steps_completed |-> Len(rs),
   files_modified |-> FilesOf(rs),
   validation |-> v,
   commit |-> CommitField(v, hash),
   plan |-> p,
   execution_summary |-> generate_summary(rs)]

\* ======================================================= run(), reporting
Report(kind, ok, error, output) ==
  [kind |-> kind, task_id |-> task.id, ok |-> ok, error |-> error, output |-> output]

\* a run() that treats a complete_task call that was not acknowledged as an error
AfterCompleteChecked(ok) == IF ok THEN "finally" ELSE "except_inner"

\* where run() goes on after self.complete_task(...): the value returned is not
\* looked at, the try body ends and the finally clause runs
AfterComplete(ok) == "finally"

\* return {...}: building the dict calls _generate_summary, which may raise;
\* then run() calls self.complete_task(task_id, output_data), whose result it
\* ignores
ReturnAndComplete ==
  /\ pc = "return"
  /\ UNCHANGED generated
  /\ response' = NoResponse
  /\ IF SummaryRaises(results)
     THEN Raise("KeyError: 'file'") /\ reports' = reports
     ELSE /\ \E ok \in BOOLEAN :
               /\ reports' = Append(reports,
                                    Report("complete", ok, "",
                                           OutputData(plan, results, validation, commit_hash)))
               /\ pc' = AfterComplete(ok)
          /\ exc' = exc
  /\ UNCHANGED << running, heartbeat_counter, task, hb, interrupted >>
  /\ UNCHANGED taskVars
  /\ UNCHANGED diskVars

\* an inner handler that reports the failure without the exception's message
InnerHandlerReportBlank(ok, msg) == Report("fail", ok, "", NoOutput)

\* what the inner handler of run() reports: fail_task(task_id, str(e))
InnerHandlerReport(ok, msg) == Report("fail", ok, msg, NoOutput)

\* a handler whose exit goes past the finally clause
HandlerExitPastFinally == "sleep"

\* try/except/finally: leaving the inner handler runs the finally clause
HandlerExit == "finally"

\* except Exception as e: ... self.fail_task(task_id, str(e))
FailTask ==
  /\ pc = "except_inner"
  /\ UNCHANGED generated
  /\ response' = NoResponse
  /\ \E ok \in BOOLEAN : reports' = Append(reports, InnerHandlerReport(ok, exc))
  /\ exc' = ""
  /\ pc' = HandlerExit
  /\ UNCHANGED << running, heartbeat_counter, task, hb, interrupted >>
  /\ UNCHANGED taskVars
  /\ UNCHANGED diskVars

\* finally: self.send_heartbeat("active"); a propagating KeyboardInterrupt
\* goes on to the outer handler
Finally ==
  /\ pc = "finally"
  /\ UNCHANGED generated
  /\ send_heartbeat(ResetStatus)
  /\ pc' = AfterHeartbeat(response', IF interrupted THEN "kbd_handler" ELSE "sleep")
  /\ DropLocals
  /\ UNCHANGED << running, heartbeat_counter, task, reports, exc, interrupted >>
  /\ UNCHANGED diskVars

\* time.sleep(self.poll_interval) at the end of the try body
Sleep ==
  /\ pc = "sleep"
  /\ UNCHANGED generated
  /\ response' = NoResponse
  /\ pc' = "loop_top"
  /\ UNCHANGED << exc, interrupted >>
  /\ UNCHANGED loopVars
  /\ UNCHANGED taskVars
  /\ UNCHANGED diskVars

\* an Exception handler of the loop that ends the loop
AfterRetryLeaves == "exited"

\* the handler of the outer try ends and `while self.running` goes round
AfterRetry == "loop_top"

\* except Exception as e: logger.error(...); time.sleep(self.poll_interval)
RetrySleep ==
  /\ pc = "outer_except"
  /\ UNCHANGED generated
  /\ response' = NoResponse
  /\ exc' = ""
  /\ pc' = AfterRetry
  /\ UNCHANGED << interrupted >>
  /\ UNCHANGED loopVars
  /\ UNCHANGED taskVars
  /\ UNCHANGED diskVars

\* a shutdown handler that repeats the idle status instead of signing off
OfflineStatusActive == "active"

\* the status run() sends when it shuts down
OfflineStatus == "offline"

\* except KeyboardInterrupt: self.running = False; send_heartbeat("offline"); break
Shutdown ==
  /\ pc = "kbd_handler"
  /\ UNCHANGED generated
  /\ running' = FALSE
  /\ send_heartbeat(OfflineStatus)
  /\ interrupted' = FALSE
  /\ pc' = AfterHeartbeat(response', "exited")
  /\ UNCHANGED << heartbeat_counter, task, reports, exc >>
  /\ UNCHANGED taskVars
  /\ UNCHANGED diskVars

\* --------------------------------------------------------------- interrupt
InOuterTry == {"loop_top", "poll", "claim", "sleep"}
InInnerTry ==
  {"busy", "plan", "context", "step", "validate", "commit", "return", "except_inner"}
InHandler == {"outer_except", "kbd_handler"}

\* where run() is once a KeyboardInterrupt has left it through a handler of the
\* outer try: out of the retry sleep of the Exception handler, or out of the
\* offline heartbeat the KeyboardInterrupt handler was sending
LeftBy(handler) == IF handler = "kbd_handler" THEN "raised_in_shutdown" ELSE "raised"

\* A KeyboardInterrupt is no Exception: inside the inner try it passes the
\* handlers of execute_task and run() and runs the finally clause; in the
\* finally clause or the rest of the outer try it reaches the outer handler;
\* in a handler of the outer try it leaves run().
Interrupt ==
  /\ \/ pc \in InOuterTry /\ pc' = "kbd_handler" /\ interrupted' = interrupted
     \/ pc \in InInnerTry /\ pc' = "finally" /\ interrupted' = TRUE
     \/ pc = "finally" /\ pc' = "kbd_handler" /\ interrupted' = interrupted
     \/ pc \in InHandler /\ pc' = LeftBy(pc) /\ interrupted' = FALSE
  /\ pc = "loop_top" => heartbeat_counter < MaxPolls
  /\ UNCHANGED generated
  /\ response' = NoResponse
  /\ exc' = ""
  /\ IF pc \in InInnerTry \cup {"finally"} THEN DropLocals ELSE UNCHANGED taskVars
  /\ UNCHANGED loopVars
  /\ UNCHANGED diskVars

Next ==
  \/ PeriodicHeartbeat
  \/ Poll
  \/ Claim
  \/ SendBusy
  \/ CreatePlan
  \/ GatherContext
  \/ ExecuteStep
  \/ Validate
  \/ Commit
  \/ ReturnAndComplete
  \/ FailTask
  \/ Finally
  \/ Sleep
  \/ RetrySleep
  \/ Shutdown
  \/ Interrupt

Spec == Init /\ [][Next]_vars

\* ================================================== run() over many iterations
\* run() as ConductorAgent defines it, execute_task being the method a subclass
\* supplies: to the loop it is a call that returns the output data or raises.
\* output_data = self.execute_task(task); self.complete_task(task_id, output_data)
ExecuteTaskCall ==
  /\ pc = "plan"
  /\ UNCHANGED generated
  /\ response' = NoResponse
  /\ \/ /\ \E ok \in BOOLEAN :
             /\ reports' = Append(reports, Report("complete", ok, "", NoOutput))
             /\ pc' = AfterComplete(ok)
        /\ exc' = exc
     \/ /\ Raise("Exception")
        /\ reports' = reports
  /\ UNCHANGED << running, heartbeat_counter, task, hb, interrupted >>
  /\ UNCHANGED taskVars
  /\ UNCHANGED diskVars

CycleHeartbeat == LoopTop(MaxCycles)

CycleNext ==
  \/ CycleHeartbeat
  \/ Poll
  \/ Claim
  \/ SendBusy
  \/ ExecuteTaskCall
  \/ FailTask
  \/ Finally
  \/ Sleep
  \/ RetrySleep

\* the loop left to run, no shutdown signal arriving
CycleSpec == Init /\ [][CycleNext]_vars

\* the same loop when every call it makes returns: run() is sequential code,
\* so the statement it is at is executed
CycleLiveSpec == Init /\ [][CycleNext]_vars /\ WF_vars(CycleNext)

\* ================================================== generated text, line by line
\* The fence stripping of _create_file and _modify_file on every text of up to
\* MaxLines lines: the backend's answer is stripped and written; the result is
\* committed; the backend then answers with the file as it is, and that is
\* stripped and written again.
Lines == FenceLines \cup TickLines \cup SkipLines \cup BlankLines \cup {"x = 1"}

Texts == SeqsUpTo(Lines, MaxLines)

TheFile == CHOOSE f \in Files : TRUE

FenceInit ==
  /\ pc = "generated"
  /\ running = TRUE
  /\ heartbeat_counter = 0
  /\ task = NoTask
  /\ hb = <<>>
  /\ reports = <<>>
  /\ exc = ""
  /\ interrupted = FALSE
  /\ response = NoResponse
  /\ generated \in Texts
  /\ ai_calls = 1
  /\ plan = NoPlan
  /\ context = NoContext
  /\ results = <<>>
  /\ validation = NoValidation
  /\ commit_hash = NoneVal
  /\ git_ops = <<>>
  /\ ws = [f \in Files |-> AbsentFile]
  /\ head = ws

fenceFrame ==
  /\ UNCHANGED << exc, interrupted, response, ai_calls >>
  /\ UNCHANGED << plan, context, results, validation, commit_hash, git_ops >>
  /\ UNCHANGED loopVars

\* _create_file from the backend's answer on: strip the fences, write the file
WriteCreated ==
  /\ pc = "generated"
  /\ ws' = Written(ws, TheFile, StripFencesCreate(generated))
  /\ pc' = "created"
  /\ UNCHANGED << generated, head >>
  /\ fenceFrame

\* _modify_file from the backend's answer on: strip the fences, write the file
WriteModified ==
  /\ pc = "generated"
  /\ ws' = Written(ws, TheFile, StripFencesModify(generated))
  /\ pc' = "modified"
  /\ UNCHANGED << generated, head >>
  /\ fenceFrame

\* git add . ; git commit: the files as written become the committed ones
CommitWritten ==
  /\ pc \in {"created", "modified"}
  /\ head' = ws
  /\ pc' = IF pc = "created" THEN "committed_created" ELSE "committed_modified"
  /\ UNCHANGED << generated, ws >>
  /\ fenceFrame

\* _create_file again, the backend answering with the file as it is
RewriteCreated ==
  /\ pc = "committed_created"
  /\ generated' = ws[TheFile].content
  /\ ws' = Written(ws, TheFile, StripFencesCreate(generated'))
  /\ pc' = "recreated"
  /\ UNCHANGED head
  /\ fenceFrame

\* _modify_file again, the backend answering with the file as it is
RewriteModified ==
  /\ pc = "committed_modified"
  /\ generated' = ws[TheFile].content
  /\ ws' = Written(ws, TheFile, StripFencesModify(generated'))
  /\ pc' = "remodified"
  /\ UNCHANGED head
  /\ fenceFrame

FenceNext ==
  \/ WriteCreated
  \/ WriteModified
  \/ CommitWritten
  \/ RewriteCreated
  \/ RewriteModified

FenceSpec == FenceInit /\ [][FenceNext]_vars

\* ================================================================ claims
Last(seq) == seq[Len(seq)]

\* execute_task is running
InExecute == {"plan", "context", "step", "validate", "commit", "return"}

\* run() has just reported, with complete_task or fail_task
Reported(kind) ==
  /\ pc = "finally"
  /\ ~interrupted
  /\ reports # <<>>
  /\ Last(reports).kind = kind

AllSuccess(rs) == \A i \in 1..Len(rs) : rs[i].status = "success"
TimedOut(rs) == \E i \in 1..Len(rs) : rs[i].error = "TimeoutExpired"

\* ------------------------------------------------------------------- C1
\* C1: around every execution of a task the heartbeats sent are active, busy,
\* active.  While execute_task runs, and after it has ended until the finally
\* clause, the last heartbeat is the one busy and the one before it is active;
\* once the iteration of a task that was executed (it returned, with passed or
\* failed validation, or raised an Exception: a report was sent) is over, the
\* last three heartbeats are active, busy, active.
C1_HeartbeatSequence ==
  /\ (pc \in InExecute \cup {"except_inner"} \/ (pc = "finally" /\ ~interrupted)) =>
       /\ Len(hb) >= 2
       /\ hb[Len(hb)] = "busy"
       /\ hb[Len(hb) - 1] = "active"
  /\ (pc = "sleep" /\ reports # <<>>) =>
       /\ Len(hb) >= 3
       /\ SubSeq(hb, Len(hb) - 2, Len(hb)) = <<"active", "busy", "active">>

\* a task whose execution raised has gone through active, busy, active
C1_Witness ==
  /\ pc = "sleep"
  /\ Len(reports) = 1
  /\ reports[1].kind = "fail"
  /\ hb = <<"active", "busy", "active">>

\* ------------------------------------------------------------------- C2
\* C2: every task poll returned has been reported with complete_task or
\* fail_task before the agent polls again (the half of the claim that needs no
\* interrupt to fail: at the next poll, run()'s task is still the one the
\* previous poll returned).
C2_EveryClaimedTaskReported ==
  (pc = "poll" /\ task.some) => reports # <<>>

\* ------------------------------------------------------------------- C3
\* C3: an Exception raised while execute_task runs is taken by the inner
\* handler of run(), never by the outer one: complete_task has not been called,
\* the handler calls fail_task for the task with the exception's message, and
\* the iteration goes on through the finally clause and the sleep to the top
\* of the loop (unless a KeyboardInterrupt arrives).
C3_HandlerStep ==
  /\ (pc = "except_inner" /\ ~interrupted') =>
       /\ exc # ""
       /\ reports = <<>>
       /\ Len(reports') = 1
       /\ reports'[1].kind = "fail"
       /\ reports'[1].error = exc
       /\ reports'[1].task_id = task.id
       /\ pc' = "finally"
  /\ (Reported("fail") /\ pc' # "kbd_handler") => pc' = "sleep" /\ reports' = reports
  /\ (pc = "sleep" /\ pc' # "kbd_handler") => pc' = "loop_top" /\ reports' = reports

C3_ExceptionContained ==
  /\ [](pc = "outer_except" => ai_calls = 0 /\ plan = NoPlan)
  /\ [][C3_HandlerStep]_vars

\* the loop is at its next poll after a failure of context gathering was reported
C3_Witness ==
  /\ pc = "poll"
  /\ heartbeat_counter = 2
  /\ Len(reports) = 1
  /\ reports[1].kind = "fail"
  /\ reports[1].error = "AttributeError: get"

\* ------------------------------------------------------------------- C4
\* C4: a plan with an empty steps list is rejected: the task never reaches
\* validation or commit and is never reported with complete_task.
C4_EmptyPlanRejected ==
  (plan.has_steps /\ Len(plan.steps) = 0) =>
    /\ pc \notin {"validate", "commit", "return"}
    /\ ~Reported("complete")

\* ------------------------------------------------------------------- C5
\* C5 as stated, for N >= 1: when every step result of a plan of N steps is a
\* success, the outcome passed to complete_task has steps_completed = N and a
\* commit that is not None.
C5_AllSuccessThenCommit ==
  (Reported("complete") /\ results # <<>> /\ AllSuccess(results)) =>
    /\ Last(reports).output.steps_completed = Len(plan.steps)
    /\ Last(reports).output.commit # NoneVal

\* C5 as amended: when every step result of a plan of N steps is a success, the
\* outcome passed to complete_task has steps_completed = N, and its commit is
\* not None exactly when validation succeeded.
C5_AllSuccessThenCount ==
  (Reported("complete") /\ AllSuccess(results)) =>
    /\ Last(reports).output.steps_completed = Len(plan.steps)
    /\ validation.done
    /\ Last(reports).output.commit # NoneVal <=> validation.success

\* two steps succeeded, validation passed and the outcome carries the revision
C5_Witness ==
  /\ Reported("complete")
  /\ Len(plan.steps) = 2
  /\ Len(results) = 2
  /\ AllSuccess(results)
  /\ Last(reports).output.steps_completed = 2
  /\ Last(reports).output.commit = "abc12345"

\* ------------------------------------------------------------------- C6
\* C6: when validation fails the task is still reported with complete_task and
\* not with fail_task, with commit None and the top-level success flag true.
C6_ValidationFailureStillCompletes ==
  (validation.done /\ ~validation.success) =>
    /\ pc # "except_inner"
    /\ (pc = "finally" /\ ~interrupted) =>
         /\ Last(reports).kind = "complete"
         /\ Last(reports).output.commit = NoneVal
         /\ Last(reports).output.success = TRUE

\* ------------------------------------------------------------------- C7
\* C7: a commit is attempted only after a validation that succeeded; when
\* validation returned issues no git operation of the commit is run.
C7_CommitOnlyAfterValidation ==
  /\ pc = "commit" => validation.done /\ validation.success
  /\ (git_ops # <<>> /\ pc \in InExecute \cup {"except_inner", "finally"} /\ ~interrupted) =>
       validation.done /\ validation.success
  /\ (validation.done /\ ~validation.success) => git_ops = <<>>

\* the three git operations have run after a successful validation
C7_Witness ==
  /\ pc = "return"
  /\ validation.success
  /\ git_ops = <<"add", "commit", "rev-parse">>

\* ------------------------------------------------------------------- C8
\* C8: a failure to create the parent directory or to write the file in
\* create_file or modify_file never leaves the step as an exception (it is a
\* step result, and the later steps run).
WorkspaceErrors == {"OSError: mkdir", "OSError: open"}

C8_WorkspaceFailureContained == exc \notin WorkspaceErrors

\* ------------------------------------------------------------------- C9
\* C9: a modify_file step on a target that does not exist returns
\* file_not_found, leaves the workspace as it was and makes no backend call.
CurrentStep == plan.steps[Len(results) + 1]

C9_Step ==
  (/\ pc = "step"
   /\ ~interrupted'
   /\ CurrentStep.action = "modify_file"
   /\ ~Exists(ws, CurrentStep.target)) =>
    /\ Len(results') = Len(results) + 1
    /\ Last(results').action = "modify_file"
    /\ Last(results').status = "file_not_found"
    /\ ws' = ws
    /\ head' = head
    /\ ai_calls' = ai_calls
    /\ exc' = ""

C9_ModifyMissingTarget == [][C9_Step]_vars

\* a modify_file step has returned file_not_found, the target is still absent
\* and the plan call is the only backend call made
C9_Witness ==
  /\ pc \in {"step", "validate"}
  /\ results # <<>>
  /\ Last(results).action = "modify_file"
  /\ Last(results).status = "file_not_found"
  /\ \A f \in Files : ~ws[f].exists
  /\ ai_calls = 1

Idle == {"poll", "sleep"}

OfflineCount == Len(SelectSeq(hb, LAMBDA s : s = "offline"))

C11_Step ==
  /\ (pc \in Idle /\ pc' \notin {"claim", "sleep", "loop_top"}) =>
       /\ pc' = "kbd_handler"
       /\ hb' = hb
       /\ reports' = reports
       /\ task' = task
  /\ (pc = "kbd_handler" /\ pc' # LeftBy(pc)) =>
       /\ hb' = Append(hb, "offline")
       /\ pc' = "exited"
       /\ ~running'
       /\ task' = task
       /\ reports' = reports

C11_IdleInterruptGoesOffline ==
  /\ [](pc = "exited" =>
         /\ ~running
         /\ Last(hb) = "offline"
         /\ OfflineCount = 1
         /\ ~ENABLED Next)
  /\ [](OfflineCount <= 1)
  /\ [][C11_Step]_vars

\* the first poll found no task, the interrupt came while the loop was idle,
\* and the loop was left after the periodic and the offline heartbeat
C11_Witness ==
  /\ pc = "exited"
  /\ heartbeat_counter = 1
  /\ task = NoTask
  /\ hb = <<"active", "offline">>

\* ------------------------------------------------------------------ C12
\* C12: wherever the loop is when the interrupt arrives, run() is left only
\* after the heartbeat with status offline: when run() has been left, by its
\* break or by the interrupt passing out of the retry sleep of the Exception
\* handler, offline is the last heartbeat sent.
C12_OfflineFromEveryState ==
  pc \in {"exited", "raised"} => (hb # <<>> /\ Last(hb) = "offline")

\* ------------------------------------------------------------------ C13
\* C13: whatever the iterations meet (a task, none, an error), the periodic
\* heartbeat with status active is sent at the start of exactly the iterations
\* whose zero-based index is a multiple of 6, beside the busy and active
\* heartbeats around each execution.  The counter is the index of the
\* iteration: it moves by one at the start of every iteration and nowhere
\* else, and every way back to the top of the loop is the end of an iteration;
\* so the active heartbeats sent are one per multiple of 6 below the number of
\* iterations started, plus one per task whose execution is over.
Count(seq, x) == Len(SelectSeq(seq, LAMBDA s : s = x))

\* the multiples of 6 among the indices 0 .. n - 1
MultiplesOfSixBelow(n) == Cardinality({ i \in 0..(n - 1) : i % 6 = 0 })

\* the busy heartbeat is out and the reset in the finally clause is not
BusySent == InExecute \cup {"except_inner", "finally"}

C13_Step ==
  /\ (pc = "loop_top" /\ pc' = "poll") =>
       /\ heartbeat_counter' = heartbeat_counter + 1
       /\ hb' = IF heartbeat_counter % 6 = 0 THEN Append(hb, "active") ELSE hb
  /\ ~(pc = "loop_top" /\ pc' = "poll") => heartbeat_counter' = heartbeat_counter
  /\ pc' = "loop_top" => pc \in {"sleep", "outer_except"}
  /\ pc = "loop_top" => pc' = "poll"

C13_PeriodicHeartbeatCadence ==
  /\ [](Count(hb, "active") =
          MultiplesOfSixBelow(heartbeat_counter) + Count(hb, "busy")
            - (IF pc \in BusySent THEN 1 ELSE 0))
  /\ [][C13_Step]_vars

\* seven iterations have started, one of the first six executed a task: the
\* periodic heartbeats of iterations 0 and 6 around the busy, active of the task
C13_Witness ==
  /\ pc = "poll"
  /\ heartbeat_counter = 7
  /\ hb = <<"active", "busy", "active", "active">>

\* ------------------------------------------------------------------ C14
\* C14: a poll that meets an unreachable coordinator, an answer other than
\* 200, or an answer without success and data leaves the loop exactly where a
\* poll that found no task leaves it: no task, nothing claimed or reported, no
\* heartbeat, the rest of the state as it was, and the loop in its sleep, from
\* which it goes to the top of the loop for the next poll.
FoundNoTask(r) == r.reachable /\ r.status = 200 /\ r.success /\ ~r.data.some

TransportError(r) == ~r.reachable \/ r.status # 200 \/ ~r.success \/ ~r.data.some

\* the state a poll without a task leaves, as a function of the state before
NoTaskOutcome ==
  /\ pc' = "sleep"
  /\ task' = NoTask
  /\ reports' = <<>>
  /\ hb' = hb
  /\ heartbeat_counter' = heartbeat_counter
  /\ running' = running
  /\ exc' = exc
  /\ ai_calls' = 0
  /\ results' = <<>>
  /\ git_ops' = <<>>
  /\ ws' = ws
  /\ head' = head

C14_Step ==
  /\ (pc = "poll" /\ response'.call = "poll") =>
       /\ FoundNoTask(response') => NoTaskOutcome
       /\ TransportError(response') => NoTaskOutcome
       /\ pc' = "claim" => ~TransportError(response')
  /\ (pc = "sleep" /\ pc' # "kbd_handler") =>
       /\ pc' = "loop_top"
       /\ task' = task
       /\ reports' = reports
       /\ hb' = hb

C14_PollErrorIsNoTask == [][C14_Step]_vars

\* the second poll was answered 500 with a task in the body: nothing was
\* claimed and the loop is in its sleep
C14_Witness ==
  /\ pc = "sleep"
  /\ heartbeat_counter = 2
  /\ response.call = "poll"
  /\ response.status = 500
  /\ response.data.some
  /\ task = NoTask
  /\ reports = <<>>

\* ------------------------------------------------------------------ C15
\* C15: a heartbeat that fails changes nothing of what the loop does: the
\* step that sends a heartbeat, whether it is acknowledged, answered with an
\* error or not answered at all, records the heartbeat and goes on to the
\* one place the code goes to after it (the poll, the execution of the task,
\* the sleep or the shutdown handler, the exit), with the task, the reports,
\* the running flag and the workspace as the code leaves them; it never
\* enters a handler.
AfterSending ==
  CASE pc = "loop_top" -> "poll"
    [] pc = "busy" -> "plan"
    [] pc = "finally" -> IF interrupted THEN "kbd_handler" ELSE "sleep"
    [] pc = "kbd_handler" -> "exited"

C15_Step ==
  response'.call = "heartbeat" =>
    /\ pc \in {"loop_top", "busy", "finally", "kbd_handler"}
    /\ pc' = AfterSending
    /\ Len(hb') = Len(hb) + 1
    /\ running' = (running /\ pc # "kbd_handler")
    /\ task' = task
    /\ reports' = reports
    /\ exc' = exc
    /\ ws' = ws
    /\ head' = head

C15_HeartbeatFailureIgnored ==
  /\ [](response.call = "heartbeat" =>
         /\ pc \in {"poll", "plan", "sleep", "kbd_handler", "exited"}
         /\ exc = "")
  /\ [][C15_Step]_vars

\* the heartbeat of the finally clause was answered 500 after the task had
\* been reported complete, and the loop is in its sleep
C15_Witness ==
  /\ pc = "sleep"
  /\ response.call = "heartbeat"
  /\ ~heartbeat_ok(response)
  /\ response.status = 500
  /\ Len(reports) = 1
  /\ reports[1].kind = "complete"
  /\ hb = <<"active", "busy", "active">>

\* ------------------------------------------------------------------ C16
\* C16: whenever the loop is about to poll, no task is in flight: the
\* execution of every task claimed before is over (the loop reaches the poll
\* only from the top of the loop, and the top only from the sleep or the retry
\* sleep, which follow the finally clause and never a running execution; the
\* locals of execute_task are gone), and the last heartbeat sent is active:
\* every busy heartbeat has been followed by an active one.
C16_Step ==
  /\ pc' = "poll" => pc = "loop_top"
  /\ pc' = "loop_top" => pc \in {"sleep", "outer_except"}
  /\ pc' = "sleep" => pc \in {"poll", "finally"}
  /\ pc' = "outer_except" => pc = "claim"

C16_OneTaskAtATime ==
  /\ [](pc = "poll" =>
         /\ hb # <<>>
         /\ Last(hb) = "active"
         /\ \A i \in 1..Len(hb) : hb[i] = "busy" => hb[i + 1] = "active"
         /\ plan = NoPlan
         /\ results = <<>>
         /\ ~validation.done)
  /\ [][C16_Step]_vars

\* the loop is at its second poll after the execution of a task
C16_Witness ==
  /\ pc = "poll"
  /\ heartbeat_counter = 2
  /\ task.some
  /\ Len(reports) = 1
  /\ hb = <<"active", "busy", "active">>

\* ------------------------------------------------------------------ C17
\* C17: fence stripping is idempotent in create_file and in modify_file: a
\* generated text without fence lines is written as it is, and a file that
\* was written from stripped text is the same file after its content has gone
\* through the stripping again.
HasFenceLine(text) == \E i \in 1..Len(text) : text[i] \in FenceLines

C17_FenceStrippingIdempotent ==
  /\ (pc \in {"created", "modified"} /\ ~HasFenceLine(generated)) =>
       ws[TheFile].content = generated
  /\ pc \in {"recreated", "remodified"} => ws = head

\* ------------------------------------------------------------------ C18
\* C18: the steps run in plan order, one at a time, with no short-circuit: a
\* step that does not raise appends its result to the results, which are
\* otherwise untouched, so that the i-th result is the result of the i-th
\* step; whatever the status of that result, the next step runs if there is
\* one; and validation is reached only with one result for every step.
ResultFor(step, r) ==
  /\ r.action = step.action
  /\ r.file # Missing => r.file = step.target
  /\ r.command # Missing => r.command = step.target

C18_Step ==
  (pc = "step" /\ pc' \notin {"finally", "except_inner"}) =>
    /\ Len(results') = Len(results) + 1
    /\ SubSeq(results', 1, Len(results)) = results
    /\ ResultFor(plan.steps[Len(results) + 1], Last(results'))
    /\ plan' = plan
    /\ pc' = IF Len(results') < Len(plan.steps) THEN "step" ELSE "validate"

C18_StepsInOrderNoShortCircuit ==
  /\ [](pc \in InExecute =>
         /\ Len(results) <= Len(plan.steps)
         /\ \A i \in 1..Len(results) : ResultFor(plan.steps[i], results[i]))
  /\ [](pc = "step" => Len(results) < Len(plan.steps))
  /\ [](pc \in {"validate", "commit", "return"} => Len(results) = Len(plan.steps))
  /\ [][C18_Step]_vars

\* the command of the first step failed, the file of the second was created,
\* and validation is next
C18_Witness ==
  /\ pc = "validate"
  /\ Len(plan.steps) = 2
  /\ plan.steps[1].action = "run_command"
  /\ plan.steps[2].action = "create_file"
  /\ Len(results) = 2
  /\ results[1].action = "run_command"
  /\ results[1].status = "failed"
  /\ results[2].action = "create_file"
  /\ results[2].status = "success"

\* ------------------------------------------------------------------ C19
\* C19: within one task the phases come in one order.  The plan is built once,
\* at the start; the context is gathered once, after the plan; steps run only
\* after the context and before validation; validation runs once, when every
\* step has its result; the commit runs only after a validation that has
\* returned; the report is sent after the phases that ran, and no phase runs
\* after it.
C19_Step ==
  /\ pc' = "plan" => pc = "busy"
  /\ pc' = "context" => pc = "plan"
  /\ pc' = "step" => pc \in {"context", "step"}
  /\ pc' = "validate" => pc \in {"context", "step"}
  /\ pc' = "commit" => pc = "validate"
  /\ pc' = "return" => pc \in {"validate", "commit"}
  /\ (plan' # plan /\ plan' # NoPlan) => pc = "plan"
  /\ (context' # context /\ context' # NoContext) => pc = "context"
  /\ (results' # results /\ results' # <<>>) => pc = "step"
  /\ (validation' # validation /\ validation'.done) => pc = "validate"
  /\ (git_ops' # git_ops /\ git_ops' # <<>>) => pc = "commit"
  /\ (reports' # reports /\ reports' # <<>>) =>
       /\ pc \in {"return", "except_inner"}
       /\ pc' = "finally"
       /\ Last(reports').kind = "complete" => pc = "return"

C19_PhasesInOrder ==
  /\ [](pc = "plan" => ai_calls = 0 /\ plan = NoPlan /\ context = NoContext)
  /\ [](pc = "context" => ai_calls = 1 /\ results = <<>> /\ ~validation.done)
  /\ [](pc = "step" => ~validation.done /\ git_ops = <<>>)
  /\ [](pc = "validate" =>
         ~validation.done /\ git_ops = <<>> /\ Len(results) = Len(plan.steps))
  /\ [](pc = "commit" => validation.done /\ git_ops = <<>>)
  /\ [](pc = "return" => validation.done /\ Len(results) = Len(plan.steps))
  /\ [](pc \in InExecute \cup {"busy", "except_inner"} => reports = <<>>)
  /\ [](Reported("complete") => validation.done /\ Len(results) = Len(plan.steps))
  /\ [][C19_Step]_vars

\* a task went through plan, context, two steps, validation and the three git
\* operations, and was then reported complete
C19_Witness ==
  /\ Reported("complete")
  /\ ai_calls >= 1
  /\ Len(plan.steps) = 2
  /\ Len(results) = 2
  /\ validation.done
  /\ git_ops = <<"add", "commit", "rev-parse">>
  /\ Len(reports) = 1

\* ------------------------------------------------------------------ C20
\* C20: a failure of the staging, of the commit or of reading the revision
\* back is never raised: the commit is the string commit_failed: <reason>,
\* the task is reported with complete_task and not with fail_task, the
\* outcome carries that string as its commit, and it counts every step result.
CommitFailures == { commit_changes(run) : run \in CommitRuns \ {"ok"} }

C20_CommitFailureContained ==
  commit_hash \in CommitFailures =>
    /\ pc # "except_inner"
    /\ (pc = "finally" /\ ~interrupted) =>
         /\ Last(reports).kind = "complete"
         /\ Last(reports).output.commit = commit_hash
         /\ Last(reports).output.steps_completed = Len(results)

\* ------------------------------------------------------------------ C21
\* C21: context gathering never fails the task.  For every plan it raises no
\* error, and when the first step is about to run (or validation, for a plan
\* without steps) the files of the context are targets of the plan that exist
\* in the workspace, each with the content the workspace has for it.
ContextErrors == {"AttributeError: get"}

C21_ContextNeverFails ==
  /\ exc \notin ContextErrors
  /\ (pc \in {"step", "validate"} /\ results = <<>>) =>
       \A t \in DOMAIN context.files :
         /\ t \in Targets(plan)
         /\ Exists(ws, t)
         /\ context.files[t] = ws[t].content

\* ------------------------------------------------------------------ C22
\* C22: the context is built once, before the first step, and no step changes
\* it: across every step, whatever it wrote, the context stays the snapshot
\* taken before the first step, also when the step wrote a file that is one
\* of its keys.
C22_Step ==
  /\ (pc = "step" /\ pc' \in {"step", "validate", "except_inner"}) => context' = context
  /\ (context' # context /\ context' # NoContext) => pc = "context"

C22_ContextReadOnly ==
  /\ [](pc = "context" => context = NoContext /\ results = <<>>)
  /\ [][C22_Step]_vars

\* the first step has overwritten a file that the context holds, and the
\* context still has the content read before the step
C22_Witness ==
  /\ pc = "step"
  /\ Len(results) = 1
  /\ results[1].status = "success"
  /\ TheFile \in DOMAIN context.files
  /\ context.files[TheFile] = <<"x = 1">>
  /\ ws[TheFile].content = <<"x = 2">>

\* ------------------------------------------------------------------ C23
\* C23: no iteration stops the loop.  With no interrupt and every call
\* returning, the n-th poll is followed by the (n+1)-th, whatever the n-th
\* poll and the iteration after it met: no task, a transport error, a task
\* completed, a task failed, or an error raised in the loop body.
C23_LoopPollsAgain ==
  \A n \in 1..(MaxCycles - 1) :
    (pc = "poll" /\ heartbeat_counter = n) ~> (pc = "poll" /\ heartbeat_counter = n + 1)

\* the loop is at its third poll after an iteration that raised in the loop
\* body (the task polled had no id)
C23_Witness ==
  /\ pc = "poll"
  /\ heartbeat_counter = 3
  /\ task.some
  /\ task.id = Missing
  /\ reports = <<>>

\* ------------------------------------------------------------------ C24
\* C24: at most one terminal report is sent for a task: since the poll that
\* returned it, complete_task and fail_task have been called at most once
\* together, and once one of them has been called, acknowledged or not, the
\* loop is past the task's execution and its handler, where no other report
\* and no retry can be made.
C24_AtMostOneReport ==
  /\ Len(reports) <= 1
  /\ reports # <<>> =>
       /\ pc \notin InExecute \cup {"busy", "except_inner"}
       /\ reports[1].task_id = task.id

\* complete_task was not acknowledged; it is the only report, and the loop
\* has gone on to its sleep
C24_Witness ==
  /\ pc = "sleep"
  /\ Len(reports) = 1
  /\ reports[1].kind = "complete"
  /\ ~reports[1].ok
  /\ reports[1].output.steps_completed = 1

====
